---- MODULE Spec2Model ----
(***************************************************************************)
(* Render lifecycle state machine, device error capture and the extraction *)
(* swap of crates/robin_render (error_handler.rs, extract_plugin.rs,       *)
(* lib.rs).  The main thread walks RenderPlugin::build, ::ready, ::finish  *)
(* and then one frame after another (the set_extract closure followed by   *)
(* the Render schedule); the driver callbacks and the acquisition routine  *)
(* run beside it.                                                          *)
(***************************************************************************)
EXTENDS Integers, Sequences, FiniteSets, TLC

\* ------------------------------------------------------------------ bounds
\* driver notifications delivered in one behaviour (number of log lines)
MaxLog == 2
\* FutureRenderResources instances created in one behaviour
MaxAttempts == 3
\* values of the simulation-side payload
MaxData == 1
\* commands the ExtractSchedule may leave queued before they are applied
MaxCmds == 1

\* ------------------------------------------------------------------ values
UncapturedKinds == {"OutOfMemory", "Validation", "Internal"}

\* the two error slots of the DeviceErrorHandler
SlotNames == {"device_lost", "uncaptured"}

\* Option::None of an error slot
NoFault == [variant |-> "none", desc |-> 0]

\* Option<RenderError>::None
NoError == [ty |-> "none", description |-> 0, source |-> FALSE]

\* RenderState variants; Absent is "no RenderState resource in the store"
StInitializing == [tag |-> "Initializing", err |-> NoError]
StReady == [tag |-> "Ready", err |-> NoError]
StReinitializing == [tag |-> "Reinitializing", err |-> NoError]
StAbsent == [tag |-> "Absent", err |-> NoError]
StErrored(e) == [tag |-> "Errored", err |-> e]

\* no such resource / no such world
NoWorld == [kind |-> "none", data |-> 0, future |-> 0, device |-> 0, hasScratch |-> FALSE]

\* World::default(), the content of a fresh ScratchMainWorld
EmptyWorld == [kind |-> "scratch", data |-> 0, future |-> 0, device |-> 0, hasScratch |-> FALSE]

Policies == {"Ignore", "StopRendering", "Recover"}

VARIABLES
    pc,           \* position of the main thread
    stage,        \* index of the running call inside the set_extract closure
    pollIdx,      \* index of the slot poll() looks at next
    setIdx,       \* index of the running system set of the Render schedule
    mainWorld,    \* the simulation-side store (what main_world refers to)
    scratchRes,   \* the World held by the ScratchMainWorld resource of mainWorld
    mainWorldRes, \* the World held by the MainWorld resource of the render store
    renderScratch, \* the World held by a ScratchMainWorld resource of the render store
    renderState,  \* RenderState resource of the render store
    renderDevice, \* RenderDevice of the render store (0: none yet)
    startupFor,   \* device the RenderStartup schedule last ran for
    deviceLost,   \* DeviceErrorHandler.device_lost
    uncaptured,   \* DeviceErrorHandler.uncaptured
    logged,       \* number of bevy_log::error! lines written by the callbacks
    cbPanicked,   \* an assert! of a driver callback failed
    cbPc,         \* position of the driver thread inside a callback closure
    cbFault,      \* the fault the running callback was called with
    slotLock,     \* holder of the Mutex of each error slot
    handler,      \* the installed RenderErrorHandler
    handled,      \* descriptions of the errors the handler was invoked with
    polled,       \* update_state: what poll() returned
    state,        \* update_state: the local `state`
    policy,       \* update_state: what the handler returned
    took,         \* update_state: what the take() of the Reinitializing arm returned
    slots,        \* content of every FutureRenderResources instance
    acquire,      \* progress of the acquisition routine of every instance
    subApp,       \* the render sub-app has been inserted into the app
    queued,       \* commands queued by the ExtractSchedule, not yet applied
    issued,       \* history: commands the ExtractSchedule queued in this frame
    applied,      \* history: commands applied to the render store in this frame
    snapshot,     \* history: mainWorld and scratchRes when extract was called
    mutated,      \* history: the ExtractSchedule wrote to the MainWorld
    frameOps      \* history: operations of the current frame, in order

vars == <<pc, stage, pollIdx, setIdx, mainWorld, scratchRes, mainWorldRes,
          renderScratch, renderState,
          renderDevice, startupFor, deviceLost, uncaptured, logged, cbPanicked,
          cbPc, cbFault, slotLock, handler, handled, polled, state, policy, took, slots, acquire,
          subApp, queued, issued, applied, snapshot, mutated, frameOps>>

mainVars == <<pc, stage, pollIdx, setIdx>>
worldVars == <<mainWorld, scratchRes, mainWorldRes, renderScratch>>
driverVars == <<cbPc, cbFault, slotLock>>
captureVars == <<deviceLost, uncaptured, logged, cbPanicked, driverVars>>
passVars == <<polled, state, policy, took>>
futureVars == <<slots, acquire>>
appVars == <<handler, subApp>>
extractVars == <<queued, issued, applied, snapshot, mutated>>

Instances == 1 .. MaxAttempts

\* ------------------------------------------------------------------ Init
Init ==
    /\ pc = "build"
    /\ stage = 1
    /\ pollIdx = 1
    /\ setIdx = 1
    /\ mainWorld = [kind |-> "sim", data |-> 0, future |-> 0, device |-> 0,
                    hasScratch |-> FALSE]
    /\ scratchRes = NoWorld
    /\ mainWorldRes = NoWorld
    /\ renderScratch = NoWorld
    /\ renderState = StAbsent
    /\ renderDevice = 0
    /\ startupFor = 0
    /\ deviceLost = NoFault
    /\ uncaptured = NoFault
    /\ logged = 0
    /\ cbPanicked = FALSE
    /\ cbPc = "idle"
    /\ cbFault = NoFault
    /\ slotLock = [n \in SlotNames |-> "free"]
    /\ handler \in {"default", "custom"}
    /\ handled = {}
    /\ polled = NoError
    /\ state = StAbsent
    /\ policy = "none"
    /\ took = 0
    /\ slots = [i \in Instances |-> "unborn"]
    /\ acquire = [i \in Instances |-> "none"]
    /\ subApp = FALSE
    /\ queued = 0
    /\ issued = 0
    /\ applied = 0
    /\ snapshot = <<NoWorld, NoWorld>>
    /\ mutated = FALSE
    /\ frameOps = << >>

\* ------------------------------------------------ acquisition future (lib.rs)
\* number of FutureRenderResources instances created so far
Created == Cardinality({i \in Instances : slots[i] # "unborn"})

\* the lock of instance i is held (by its acquisition routine)
Locked(i) == acquire[i] = "locking"

\* an insert_future_resources that keeps an instance that is already installed
InsertFutureResourcesReuse(w, success, id) ==
    IF success THEN [w EXCEPT !.future = IF w.future # 0 THEN w.future ELSE id]
    ELSE w

\* insert_future_resources: the store after the call; id is the instance made
\* by FutureRenderResources::default()
InsertFutureResources(w, success, id) ==
    IF success THEN [w EXCEPT !.future = id] ELSE w

\* a ready() that reports false while the lock is held
ReadyWhenUnlocked(w) ==
    IF w.future = 0 THEN TRUE
    ELSE IF Locked(w.future) THEN FALSE
    ELSE slots[w.future] = "populated"

\* RenderPlugin::ready: no resource -> unwrap_or(true); try_lock fails ->
\* `.ok()` is None -> unwrap_or(true); otherwise `locked.is_some()`
Ready(w) ==
    IF w.future = 0 THEN TRUE
    ELSE IF Locked(w.future) THEN TRUE
    ELSE slots[w.future] = "populated"

\* a build that installs the plugin and the sub-app whatever the outcome
BuildInstallsAlways(success) == TRUE

\* RenderPlugin::build: `if insert_future_resources(..) { .. }`
BuildInstalls(success) == success

\* RenderPlugin::build; ExtractPlugin::build initialises the ScratchMainWorld,
\* insert_sub_app installs the render sub-app
Build(success) ==
    /\ pc = "build"
    /\ LET id == Created + 1
           w == InsertFutureResources(mainWorld, success, id)
       IN /\ mainWorld' = IF BuildInstalls(success)
                           THEN [w EXCEPT !.hasScratch = TRUE] ELSE w
          /\ scratchRes' = IF BuildInstalls(success) THEN EmptyWorld
                            ELSE scratchRes
          /\ subApp' = BuildInstalls(success)
          /\ slots' = IF success THEN [slots EXCEPT ![id] = "empty"] ELSE slots
          /\ acquire' = IF success THEN [acquire EXCEPT ![id] = "pending"]
                         ELSE acquire
    /\ pc' = "ready"
    /\ UNCHANGED <<stage, pollIdx, setIdx, mainWorldRes, renderScratch, renderState,
                   renderDevice,
                   startupFor, captureVars, handler, handled, passVars,
                   extractVars, frameOps>>

\* the acquisition routine takes the lock of its instance
PopulateBegin(i) ==
    /\ acquire[i] = "pending"
    /\ acquire' = [acquire EXCEPT ![i] = "locking"]
    /\ UNCHANGED <<mainVars, worldVars, renderState, renderDevice, startupFor,
                   captureVars, appVars, handled, passVars, slots,
                   extractVars, frameOps>>

\* the acquisition routine stores the bundle and releases the lock
PopulateEnd(i) ==
    /\ acquire[i] = "locking"
    /\ acquire' = [acquire EXCEPT ![i] = "done"]
    /\ slots' = [slots EXCEPT ![i] = "populated"]
    /\ UNCHANGED <<mainVars, worldVars, renderState, renderDevice, startupFor,
                   captureVars, appVars, handled, passVars,
                   extractVars, frameOps>>

\* the app observes RenderPlugin::ready() = true
PluginReady ==
    /\ pc = "ready"
    /\ Ready(mainWorld)
    /\ pc' = "finish"
    /\ UNCHANGED <<stage, pollIdx, setIdx, worldVars, renderState, renderDevice,
                   startupFor, captureVars, appVars, handled, passVars,
                   futureVars, extractVars, frameOps>>

\* ------------------------------------------------ frame layout
\* a closure that syncs entities before the pre-extract hook
SetExtractSyncFirst == <<"entity_sync", "pre_extract", "extract">>

\* the calls of the closure given to set_extract, in order
SetExtract == <<"pre_extract", "entity_sync", "extract">>

\* first position of a call of the frame
FirstPc(call) ==
    CASE call = "pre_extract" -> "poll"
      [] call = "entity_sync" -> "entity_sync"
      [] call = "extract" -> "extract_in"
      [] OTHER -> "render"

\* position after the call at index s of the closure has returned: the next
\* call of the closure, or the sub-app's update schedule (Render)
AfterCall(s) ==
    IF s < Len(SetExtract) THEN FirstPc(SetExtract[s + 1]) ELSE "render"

\* RenderResources::unpack_into on the simulation-side store: the new device
\* handle is installed and the consumed wrapper is gone
UnpackInto(w, id) == [w EXCEPT !.device = id, !.future = 0]

\* a consumer that reads the bundle and leaves it in the slot
TakeContentKeeps(c) == c

\* what Option::take of a populated FutureRenderResources leaves in its slot
TakeContent(c) == "taken"

\* `remove_resource::<FutureRenderResources>()` on the simulation-side store
RemoveFuture(w) == [w EXCEPT !.future = 0]

\* RenderPlugin::finish: nothing to do without a FutureRenderResources;
\* otherwise remove it, wait for its lock, take and unpack the bundle
Finish ==
    /\ pc = "finish"
    /\ IF mainWorld.future = 0
       THEN /\ pc' = "no_render"
            /\ UNCHANGED <<mainWorld, slots, renderDevice, renderState>>
       ELSE /\ ~Locked(mainWorld.future)
            /\ LET id == mainWorld.future IN
               IF slots[id] = "populated"
               THEN /\ slots' = [slots EXCEPT ![id] = TakeContent(slots[id])]
                    /\ mainWorld' = UnpackInto(RemoveFuture(mainWorld), id)
                    /\ renderDevice' = id
                    /\ renderState' = StInitializing
                    /\ pc' = FirstPc(SetExtract[1])
               ELSE /\ mainWorld' = RemoveFuture(mainWorld)
                    /\ pc' = "aborted"
                    /\ UNCHANGED <<slots, renderDevice, renderState>>
    /\ stage' = 1
    /\ UNCHANGED <<pollIdx, setIdx, scratchRes, mainWorldRes, renderScratch, startupFor, captureVars,
                   appVars, handled, passVars, acquire, extractVars, frameOps>>

\* ------------------------------------------------ device error capture
\* the main thread has not panicked and a device with callbacks exists
DeviceLive == renderDevice # 0 /\ pc # "aborted"

\* what the device-lost callback leaves in the slot (Option::replace)
DeviceLostStore(old, new) == new

\* an uncaptured-error callback that overwrites a pending fault
UncapturedStoreLatest(old, new) == new

\* what the uncaptured-error callback leaves in the slot (get_or_insert)
UncapturedStore(old, new) == IF old.variant = "none" THEN new ELSE old

\* an assert! that fails on every device-lost notification
DeviceLostAssertNever(old) == FALSE

\* the condition of the assert! of the device-lost callback:
\* `replace(..).is_none()`, old being the content the replace returned
DeviceLostAssert(old) == old.variant = "none"

\* the slot a callback closure captured
SlotOf(f) == IF f.variant = "DeviceLost" THEN "device_lost" ELSE "uncaptured"

\* a closure that stores without writing a log line
LogLineNone(n) == n

\* number of log lines after the `bevy_log::error!` of a callback closure
LogLine(n) == n + 1

\* the driver calls a callback closure with a fault of variant v; the closure
\* writes its log line first
CallbackLog(v) ==
    /\ DeviceLive
    /\ cbPc = "idle"
    /\ logged < MaxLog
    /\ logged' = LogLine(logged)
    /\ cbFault' = [variant |-> v, desc |-> logged + 1]
    /\ cbPc' = "logged"
    /\ UNCHANGED <<mainVars, worldVars, renderState, renderDevice, startupFor,
                   deviceLost, uncaptured, cbPanicked, slotLock, appVars,
                   handled, passVars, futureVars, extractVars, frameOps>>

\* `.lock().unwrap()` of the running closure on the slot it captured
CallbackLock ==
    /\ cbPc = "logged"
    /\ slotLock[SlotOf(cbFault)] = "free"
    /\ slotLock' = [slotLock EXCEPT ![SlotOf(cbFault)] = "callback"]
    /\ cbPc' = "locked"
    /\ UNCHANGED <<mainVars, worldVars, renderState, renderDevice, startupFor,
                   deviceLost, uncaptured, logged, cbPanicked, cbFault, appVars,
                   handled, passVars, futureVars, extractVars, frameOps>>

\* set_device_lost_callback closure: replace, release of the lock, assert!
DeviceLostCallback ==
    /\ cbPc = "locked"
    /\ cbFault.variant = "DeviceLost"
    /\ deviceLost' = DeviceLostStore(deviceLost, cbFault)
    /\ cbPanicked' = (cbPanicked \/ ~DeviceLostAssert(deviceLost))
    /\ slotLock' = [slotLock EXCEPT ![SlotOf(cbFault)] = "free"]
    /\ cbPc' = "idle"
    /\ cbFault' = NoFault
    /\ UNCHANGED <<mainVars, worldVars, renderState, renderDevice, startupFor,
                   uncaptured, logged, appVars, handled, passVars, futureVars,
                   extractVars, frameOps>>

\* on_uncaptured_error closure: get_or_insert, release of the lock
UncapturedCallback ==
    /\ cbPc = "locked"
    /\ cbFault.variant \in UncapturedKinds
    /\ uncaptured' = UncapturedStore(uncaptured, cbFault)
    /\ slotLock' = [slotLock EXCEPT ![SlotOf(cbFault)] = "free"]
    /\ cbPc' = "idle"
    /\ cbFault' = NoFault
    /\ UNCHANGED <<mainVars, worldVars, renderState, renderDevice, startupFor,
                   deviceLost, logged, cbPanicked, appVars, handled, passVars,
                   futureVars, extractVars, frameOps>>

\* frameOps after operation o; the first operation of a frame starts it anew
Op(o) ==
    IF frameOps # << >> /\ frameOps[Len(frameOps)] = "render"
    THEN <<o>>
    ELSE Append(frameOps, o)

\* poll() that looks at the uncaptured slot first
PollOrderUncapturedFirst == <<"uncaptured", "device_lost">>

\* the slots poll() looks at, in order
PollOrder == <<"device_lost", "uncaptured">>

\* the RenderError poll() builds from a taken slot
ToRenderError(f) ==
    CASE f.variant = "DeviceLost" ->
            [ty |-> "DeviceLost", description |-> f.desc, source |-> FALSE]
      [] f.variant = "OutOfMemory" ->
            [ty |-> "OutOfMemory", description |-> 0, source |-> TRUE]
      [] f.variant = "Validation" ->
            [ty |-> "Validation", description |-> f.desc, source |-> TRUE]
      [] OTHER ->
            [ty |-> "Internal", description |-> f.desc, source |-> TRUE]

\* a read of the slot that leaves its content in place
TakeKeeps(f) == f

\* what Option::take leaves in a slot
Take(f) == NoFault

\* an update_state that lets a polled fault overwrite the Ready state only
PollInsertOverReady(rs, e) == IF rs.tag = "Ready" THEN StErrored(e) ELSE rs

\* `render_world.insert_resource(RenderState::Errored(error))` on a store
\* that holds rs
PollInsert(rs, e) == StErrored(e)

\* a poll() that keeps the lock of a slot it has looked at
PollUnlockKeeps(l, name) == l

\* the locks after the guard of an `if let` of poll() has been dropped
PollUnlock(l, name) == [l EXCEPT ![name] = "free"]

\* one `if let Some(..) = slot.lock().unwrap().take()` of poll(), with the
\* insert of Errored(error) that follows a returned error in update_state:
\* first the lock() of the slot, then the take() and the drop of the guard
Poll ==
    /\ pc = "poll"
    /\ LET name == PollOrder[pollIdx]
           f == IF name = "device_lost" THEN deviceLost ELSE uncaptured
       IN IF slotLock[name] # "poll"
          THEN /\ slotLock[name] = "free"
               /\ slotLock' = [slotLock EXCEPT ![name] = "poll"]
               /\ UNCHANGED <<deviceLost, uncaptured, renderState, pollIdx, pc,
                              polled, frameOps>>
          ELSE /\ slotLock' = PollUnlock(slotLock, name)
               /\ IF f.variant # "none"
                  THEN /\ deviceLost' = IF name = "device_lost" THEN Take(f)
                                        ELSE deviceLost
                       /\ uncaptured' = IF name = "uncaptured" THEN Take(f)
                                        ELSE uncaptured
                       /\ polled' = ToRenderError(f)
                       /\ renderState' = PollInsert(renderState, ToRenderError(f))
                       /\ pollIdx' = 1
                       /\ pc' = "remove"
                       /\ frameOps' = Op("poll")
                  ELSE /\ UNCHANGED <<deviceLost, uncaptured, renderState>>
                       /\ IF pollIdx < Len(PollOrder)
                          THEN /\ pollIdx' = pollIdx + 1
                               /\ UNCHANGED <<pc, polled, frameOps>>
                          ELSE /\ pollIdx' = 1
                               /\ polled' = NoError
                               /\ pc' = "remove"
                               /\ frameOps' = Op("poll")
    /\ UNCHANGED <<stage, setIdx, worldVars, renderDevice, startupFor, logged,
                   cbPanicked, cbPc, cbFault,
                   appVars, handled, state, policy, took, futureVars,
                   extractVars>>

\* ------------------------------------------------ update_state
\* a read of the RenderState that leaves it in the store
RemoveStateKeeps(rs) == rs

\* what remove_resource::<RenderState>() leaves in the render store
RemoveState(rs) == StAbsent

\* `let state = render_world.remove_resource::<RenderState>().unwrap()`
Remove ==
    /\ pc = "remove"
    /\ IF renderState.tag = "Absent"
       THEN /\ pc' = "aborted"
            /\ UNCHANGED <<state, renderState>>
       ELSE /\ state' = renderState
            /\ renderState' = RemoveState(renderState)
            /\ pc' = "dispatch"
    /\ UNCHANGED <<stage, pollIdx, setIdx, worldVars, renderDevice, startupFor,
                   captureVars, appVars, handled, polled, policy, took,
                   futureVars, extractVars, frameOps>>

\* RenderState::Initializing arm: the RenderState left in the store
AfterInitializing == StReady

\* RenderState::Initializing arm
DispatchInitializing ==
    /\ pc = "dispatch"
    /\ state.tag = "Initializing"
    /\ startupFor' = renderDevice
    /\ renderState' = AfterInitializing
    /\ pc' = "putback"
    /\ frameOps' = Op("dispatch")
    /\ UNCHANGED <<stage, pollIdx, setIdx, worldVars, renderDevice, captureVars,
                   appVars, handled, passVars, futureVars, extractVars>>

\* RenderState::Ready arm
DispatchReady ==
    /\ pc = "dispatch"
    /\ state.tag = "Ready"
    /\ pc' = "putback"
    /\ frameOps' = Op("dispatch")
    /\ UNCHANGED <<stage, pollIdx, setIdx, worldVars, renderState, renderDevice,
                   startupFor, captureVars, appVars, handled, passVars,
                   futureVars, extractVars>>

\* the policies the installed handler function may return
HandlerReturns(h) == IF h = "default" THEN {"Ignore"} ELSE Policies

\* a Recover arm that installs the future but no RenderState
HandleRecoverNoState(p, rs) == IF p = "Ignore" THEN StReady ELSE rs

\* RenderErrorHandler::handle: the RenderState in the store after policy p
\* has been applied to a store holding rs
Handle(p, rs) ==
    CASE p = "Ignore" -> StReady
      [] p = "StopRendering" -> rs
      [] OTHER -> StReinitializing

\* a Recover arm without the assert!
RecoverAssertOff(success) == TRUE

\* the condition of `assert!(insert_future_resources(..))` of the Recover arm
RecoverAssert(success) == success

\* RenderState::Errored arm
DispatchErrored(p, success) ==
    /\ pc = "dispatch"
    /\ state.tag = "Errored"
    /\ p \in HandlerReturns(handler)
    /\ p # "Recover" => success
    /\ p = "Recover" => Created < MaxAttempts
    /\ handled' = handled \cup {state.err.description}
    /\ policy' = p
    /\ frameOps' = Op("dispatch")
    /\ LET id == Created + 1 IN
       IF p = "Recover"
       THEN /\ mainWorld' = InsertFutureResources(mainWorld, success, id)
            /\ slots' = IF success THEN [slots EXCEPT ![id] = "empty"] ELSE slots
            /\ acquire' = IF success THEN [acquire EXCEPT ![id] = "pending"]
                           ELSE acquire
            /\ IF RecoverAssert(success)
               THEN /\ renderState' = Handle(p, renderState)
                    /\ pc' = "putback"
               ELSE /\ pc' = "aborted"
                    /\ UNCHANGED renderState
       ELSE /\ renderState' = Handle(p, renderState)
            /\ pc' = "putback"
            /\ UNCHANGED <<mainWorld, slots, acquire>>
    /\ UNCHANGED <<stage, pollIdx, setIdx, scratchRes, mainWorldRes, renderScratch, renderDevice,
                   startupFor, captureVars, appVars, polled, state, took,
                   extractVars>>

\* a take() that never sees the bundle
TakeFutureNone(id) == 0

\* what the take() of the Reinitializing arm returns for instance id
TakeFuture(id) == IF slots[id] = "populated" THEN id ELSE 0

\* a Reinitializing arm that moves on without a bundle
AfterReinitializingAlways(t) == StInitializing

\* RenderState::Reinitializing arm: the RenderState left in the store when
\* take() returned t (0: None)
AfterReinitializing(t) == IF t # 0 THEN StInitializing ELSE StAbsent

\* RenderState::Reinitializing arm
DispatchReinitializing ==
    /\ pc = "dispatch"
    /\ state.tag = "Reinitializing"
    /\ frameOps' = Op("dispatch")
    /\ IF mainWorld.future = 0
       THEN /\ pc' = "aborted"
            /\ UNCHANGED <<mainWorld, renderState, renderDevice, deviceLost,
                           uncaptured, driverVars, took, slots>>
       ELSE /\ ~Locked(mainWorld.future)
            /\ pc' = "putback"
            /\ took' = TakeFuture(mainWorld.future)
            /\ renderState' = AfterReinitializing(TakeFuture(mainWorld.future))
            /\ IF TakeFuture(mainWorld.future) # 0
               THEN /\ slots' = [slots EXCEPT ![mainWorld.future] =
                                        TakeContent(slots[mainWorld.future])]
                    /\ mainWorld' = UnpackInto(mainWorld, mainWorld.future)
                    /\ renderDevice' = mainWorld.future
                    /\ deviceLost' = NoFault
                    /\ uncaptured' = NoFault
                    /\ cbPc' = "idle"
                    /\ cbFault' = NoFault
                    /\ slotLock' = [n \in SlotNames |-> "free"]
               ELSE UNCHANGED <<mainWorld, renderDevice, deviceLost,
                                uncaptured, driverVars, slots>>
    /\ UNCHANGED <<stage, pollIdx, setIdx, scratchRes, mainWorldRes, renderScratch, startupFor, logged,
                   cbPanicked, appVars, handled, polled, state, policy,
                   acquire, extractVars>>

\* update_state without its final reinsert
PutBackStateNever(rs, st) == rs

\* "Put the state back if we didn't set a new one": the RenderState in the
\* store when update_state returns
PutBackState(rs, st) == IF rs.tag = "Absent" THEN st ELSE rs

\* position and closure index after the call at index `stage` has returned
Return ==
    /\ pc' = AfterCall(stage)
    /\ stage' = IF stage < Len(SetExtract) THEN stage + 1 ELSE 1

PutBack ==
    /\ pc = "putback"
    /\ renderState' = PutBackState(renderState, state)
    /\ polled' = NoError
    /\ state' = StAbsent
    /\ policy' = "none"
    /\ took' = 0
    /\ Return
    /\ UNCHANGED <<pollIdx, setIdx, worldVars, renderDevice, startupFor, captureVars,
                   appVars, handled, futureVars, extractVars, frameOps>>

\* ------------------------------------------------ extraction (extract_plugin.rs)
\* entity_sync_system call of the closure
EntitySync ==
    /\ pc = "entity_sync"
    /\ frameOps' = Op("entity_sync")
    /\ Return
    /\ UNCHANGED <<pollIdx, setIdx, worldVars, renderState, renderDevice, startupFor,
                   captureVars, appVars, handled, passVars, futureVars,
                   extractVars>>

\* extract, first half: what main_world refers to after
\* `mem::replace(main_world, scratch_world.0)`
SwapIn(w, scratch) == scratch

\* extract, first half: the World moved into the MainWorld resource
InsertedWorld(w) == [w EXCEPT !.hasScratch = FALSE]

\* extract up to `render_world.insert_resource(MainWorld(inserted_world))`
ExtractIn ==
    /\ pc = "extract_in"
    /\ IF ~mainWorld.hasScratch
       THEN /\ pc' = "aborted"
            /\ UNCHANGED <<worldVars, snapshot, mutated>>
       ELSE /\ mainWorld' = SwapIn(mainWorld, scratchRes)
            /\ mainWorldRes' = InsertedWorld(mainWorld)
            /\ scratchRes' = NoWorld
            /\ renderScratch' = renderScratch
            /\ snapshot' = <<mainWorld, scratchRes>>
            /\ mutated' = FALSE
            /\ pc' = "extract_run"
    /\ UNCHANGED <<stage, pollIdx, setIdx, renderState, renderDevice, startupFor,
                   captureVars, appVars, handled, passVars, futureVars,
                   queued, issued, applied, frameOps>>

\* an ExtractSchedule built with the default settings
ApplyFinalDeferredOn == TRUE

\* ExtractSchedule: `auto_insert_apply_deferred: false` and
\* `set_apply_final_deferred(false)`
ApplyFinalDeferred == FALSE

\* `render_world.run_schedule(ExtractSchedule)`: the systems may write to the
\* relocated store through MainWorld (DerefMut) and may queue commands, which
\* stay queued (auto_insert_apply_deferred and apply_final_deferred are off)
ExtractRun(write, cmds) ==
    /\ pc = "extract_run"
    /\ queued + cmds <= MaxCmds
    /\ issued' = cmds
    /\ queued' = IF ApplyFinalDeferred THEN queued ELSE queued + cmds
    /\ applied' = IF ApplyFinalDeferred THEN cmds ELSE 0
    /\ mutated' = write
    /\ mainWorldRes' = IF write
                       THEN [mainWorldRes EXCEPT
                               !.data = (mainWorldRes.data + 1) % (MaxData + 1)]
                       ELSE mainWorldRes
    /\ frameOps' = Op("extract")
    /\ pc' = "extract_out"
    /\ UNCHANGED <<stage, pollIdx, setIdx, mainWorld, scratchRes, renderScratch,
                   renderState, renderDevice, startupFor, captureVars, appVars,
                   handled, passVars, futureVars, snapshot>>

\* a swap back that does not reinsert the ScratchMainWorld
SwapOutNoScratch(inserted) == inserted

\* extract, second half: what main_world refers to after
\* `mem::replace(main_world, inserted_world.0)` and the insert of the
\* ScratchMainWorld
SwapOut(inserted) == [inserted EXCEPT !.hasScratch = TRUE]

\* an extract that hands the placeholder to the render store
ScratchTargetRender == "render_world"

\* the store the last line of extract inserts the ScratchMainWorld into:
\* `main_world.insert_resource(ScratchMainWorld(scratch_world))`
ScratchTarget == "main_world"

\* a swap back that leaves the MainWorld resource in the render store
RemoveMainWorldKeeps(res) == res

\* extract, second half: what the MainWorld resource of the render store holds
\* after `render_world.remove_resource::<MainWorld>()`
RemoveMainWorld(res) == NoWorld

\* extract from `remove_resource::<MainWorld>()` to its return
ExtractOut ==
    /\ pc = "extract_out"
    /\ IF mainWorldRes.kind = "none"
       THEN /\ pc' = "aborted"
            /\ stage' = stage
            /\ UNCHANGED worldVars
       ELSE /\ mainWorld' = IF ScratchTarget = "main_world"
                           THEN SwapOut(mainWorldRes) ELSE mainWorldRes
            /\ scratchRes' = IF ScratchTarget = "main_world" THEN mainWorld
                            ELSE NoWorld
            /\ renderScratch' = IF ScratchTarget = "main_world"
                               THEN renderScratch ELSE mainWorld
            /\ mainWorldRes' = RemoveMainWorld(mainWorldRes)
            /\ Return
    /\ UNCHANGED <<pollIdx, setIdx, renderState, renderDevice, startupFor,
                   captureVars, appVars, handled, passVars, futureVars,
                   extractVars, frameOps>>

\* a base schedule whose ExtractCommands set comes last in the chain
RenderChainCommandsLast ==
    <<"PrepareMeshes", "CreateViews", "Specialize", "PrepareViews", "Queue",
      "PhaseSort", "Prepare", "Render", "Cleanup", "PostCleanup",
      "ExtractCommands">>

\* Render::base_schedule: the chained system sets
RenderChain ==
    <<"ExtractCommands", "PrepareMeshes", "CreateViews", "Specialize",
      "PrepareViews", "Queue", "PhaseSort", "Prepare", "Render", "Cleanup",
      "PostCleanup">>

\* the sets RenderPlugin::build adds a system to (apply_extract_commands,
\* despawn_temporary_render_entities)
HasSystems(s) == s \in {"ExtractCommands", "PostCleanup"}

\* the sets of the Render schedule that run a system, in chain order
RenderRun == SelectSeq(RenderChain, HasSystems)

\* apply_extract_commands: the commands still queued after apply_deferred
ApplyDeferred(q) == 0

\* one system set of the Render schedule; apply_extract_commands (in
\* ExtractCommands) applies what the ExtractSchedule left queued; the last
\* set ends the frame
RenderSchedule ==
    /\ pc = "render"
    /\ frameOps' = IF setIdx = 1 THEN Op("render") ELSE frameOps
    /\ IF setIdx < Len(RenderRun)
       THEN /\ setIdx' = setIdx + 1
            /\ queued' = IF RenderRun[setIdx] = "ExtractCommands"
                          THEN ApplyDeferred(queued) ELSE queued
            /\ applied' = IF RenderRun[setIdx] = "ExtractCommands"
                           THEN applied + queued ELSE applied
            /\ UNCHANGED <<pc, stage, issued, snapshot, mutated>>
       ELSE /\ setIdx' = 1
            /\ queued' = IF RenderRun[setIdx] = "ExtractCommands"
                          THEN ApplyDeferred(queued) ELSE queued
            /\ applied' = 0
            /\ issued' = 0
            /\ pc' = FirstPc(SetExtract[1])
            /\ stage' = 1
            /\ snapshot' = <<NoWorld, NoWorld>>
            /\ mutated' = FALSE
    /\ UNCHANGED <<pollIdx, worldVars, renderState, renderDevice, startupFor,
                   captureVars, appVars, handled, passVars, futureVars>>

\* ------------------------------------------------ specification
MainStep ==
    \/ \E success \in BOOLEAN : Build(success)
    \/ PluginReady
    \/ Finish
    \/ Poll
    \/ Remove
    \/ DispatchInitializing
    \/ DispatchReady
    \/ \E p \in Policies, success \in BOOLEAN : DispatchErrored(p, success)
    \/ DispatchReinitializing
    \/ PutBack
    \/ EntitySync
    \/ ExtractIn
    \/ \E write \in BOOLEAN, cmds \in 0 .. MaxCmds : ExtractRun(write, cmds)
    \/ ExtractOut
    \/ RenderSchedule

Next ==
    \/ MainStep
    \/ \E i \in Instances : PopulateBegin(i)
    \/ \E i \in Instances : PopulateEnd(i)
    \/ \E v \in {"DeviceLost"} \cup UncapturedKinds : CallbackLog(v)
    \/ CallbackLock
    \/ DeviceLostCallback
    \/ UncapturedCallback

Spec == Init /\ [][Next]_vars

\* the main thread keeps running frames, and a callback closure that holds
\* the lock of its slot runs to its end
FairSpec ==
    /\ Spec
    /\ WF_vars(MainStep)
    /\ WF_vars(DeviceLostCallback \/ UncapturedCallback)

TypeOK ==
    /\ pc \in {"build", "no_render", "ready", "finish", "poll", "remove",
               "dispatch", "putback", "entity_sync", "extract_in",
               "extract_run", "extract_out", "render", "aborted"}
    /\ stage \in 1 .. Len(SetExtract)
    /\ renderState.tag \in {"Absent", "Initializing", "Ready", "Errored",
                            "Reinitializing"}
    /\ logged \in 0 .. MaxLog
    /\ queued \in 0 .. MaxCmds
    /\ setIdx \in 1 .. Len(RenderRun)
    /\ applied \in 0 .. MaxCmds
    /\ issued \in 0 .. MaxCmds
    /\ subApp \in BOOLEAN
    /\ cbPc \in {"idle", "logged", "locked"}
    /\ \A n \in SlotNames : slotLock[n] \in {"free", "poll", "callback"}

\* ------------------------------------------------ properties
\* the main thread took a step of poll() that returned
PollReturns == pc = "poll" /\ pc' = "remove"

\* the main thread took the last step of update_state
PassEnds == pc = "putback" /\ pc' # "putback"

\* the RenderState of the pass: the one in the store, or the removed one
\* while update_state holds it
EffState == IF renderState.tag = "Absent" THEN state ELSE renderState

\* the FutureRenderResources of the simulation store, wherever that store is
CurFuture ==
    IF mainWorldRes.kind # "none" THEN mainWorldRes.future ELSE mainWorld.future

\* the installed FutureRenderResources has been populated and not yet taken
Populated == CurFuture # 0 /\ slots[CurFuture] = "populated"

\* the installed FutureRenderResources is still waiting for its bundle
Unpopulated == CurFuture # 0 /\ slots[CurFuture] = "empty"

\* C1: a poll() call empties at most one slot and returns at most one error,
\* and a poll() that starts while a device-lost fault is pending returns that
\* DeviceLost fault and leaves the uncaptured slot alone, whichever of the two
\* pending faults was captured first.
C1_PollPrecedence ==
    [][/\ PollReturns => (deviceLost' = deviceLost \/ uncaptured' = uncaptured)
       /\ PollReturns =>
            \/ polled' = NoError /\ deviceLost' = deviceLost /\ uncaptured' = uncaptured
            \/ polled'.ty = "DeviceLost" /\ deviceLost' = NoFault /\ uncaptured' = uncaptured
            \/ polled'.ty \in UncapturedKinds /\ uncaptured' = NoFault /\ deviceLost' = deviceLost
       /\ (pc = "poll" /\ pollIdx = 1 /\ deviceLost.variant # "none"
             /\ (pc' # pc \/ pollIdx' # pollIdx))
            => /\ pc' = "remove"
               /\ polled' = [ty |-> "DeviceLost", description |-> deviceLost.desc,
                             source |-> FALSE]]_vars

\* C1 witness: poll() has returned DeviceLost although an uncaptured fault that
\* was captured earlier is still pending.
C1_Witness ==
    /\ pc = "remove"
    /\ polled.ty = "DeviceLost"
    /\ uncaptured.variant # "none"
    /\ uncaptured.desc < polled.description

\* C2: a poll() that starts with both slots occupied returns DeviceLost and
\* leaves both slots empty, so that the next poll() finds nothing.
C2_PollDrainsBoth ==
    [][(pc = "poll" /\ pollIdx = 1 /\ deviceLost.variant # "none"
          /\ uncaptured.variant # "none" /\ pc' = "remove")
         => /\ polled'.ty = "DeviceLost"
            /\ deviceLost' = NoFault
            /\ uncaptured' = NoFault]_vars

\* C3: outside the window between the remove and the reinsert of update_state
\* the render store holds a RenderState, one of the four variants.
C3_StatePresent ==
    pc \in {"poll", "remove", "entity_sync", "extract_in", "extract_run",
            "extract_out", "render"}
      => renderState.tag \in {"Initializing", "Ready", "Errored", "Reinitializing"}

\* C3 witness: a completed pass whose handler returned StopRendering left the
\* reinserted Errored state in the store.
C3_Witness ==
    /\ pc = "entity_sync"
    /\ renderState.tag = "Errored"
    /\ frameOps = <<"poll", "dispatch">>

\* C4 (as claimed): once the state is Reinitializing and the installed
\* FutureRenderResources is populated, the state eventually becomes
\* Initializing, whatever faults are captured in the meantime.
C4_RecoverReachesInitializing ==
    (renderState.tag = "Reinitializing" /\ Populated)
        ~> (renderState.tag = "Initializing")

\* C4 (amended): once the state is Reinitializing and the installed
\* FutureRenderResources is populated, the state eventually becomes
\* Initializing unless a pass polls a fault first.
C4_RecoverReachesInitializingUnlessFault ==
    (renderState.tag = "Reinitializing" /\ Populated)
        ~> (renderState.tag = "Initializing" \/ polled.ty # "none")

\* C4 witness: the Reinitializing arm has taken the bundle of a recovery and
\* installed Initializing.
C4_Witness ==
    /\ pc = "putback"
    /\ state.tag = "Reinitializing"
    /\ took # 0
    /\ renderState.tag = "Initializing"

\* C5 (as claimed): while the installed FutureRenderResources stays
\* unpopulated, no step takes the state of the pass away from Reinitializing.
C5_ReinitializingStays ==
    [][(EffState.tag = "Reinitializing" /\ Unpopulated')
         => EffState'.tag = "Reinitializing"]_vars

\* C5 (amended): while the installed FutureRenderResources stays unpopulated
\* and poll() returns no fault, no step takes the state of the pass away from
\* Reinitializing.
C5_ReinitializingStaysUnlessFault ==
    [][(EffState.tag = "Reinitializing" /\ Unpopulated' /\ polled'.ty = "none")
         => EffState'.tag = "Reinitializing"]_vars

\* C5 witness: the Reinitializing arm has found the slot empty and left the
\* store without a new state.
C5_Witness ==
    /\ pc = "putback"
    /\ state.tag = "Reinitializing"
    /\ took = 0
    /\ renderState.tag = "Absent"
    /\ Unpopulated

\* C6: with the default handler every pass ends in Ready, the handler is
\* invoked in a pass exactly when that pass polled a fault, and it is never
\* invoked for a DeviceLost fault it was already invoked with.
C6_DefaultIgnores ==
    [][handler = "default" =>
         /\ PassEnds => /\ renderState'.tag = "Ready"
                        /\ (policy # "none") = (polled.ty # "none")
         /\ (pc = "dispatch" /\ state.tag = "Errored" /\ state.err.ty = "DeviceLost")
              => state.err.description \notin handled]_vars

\* C6 witness: the default handler has ignored a polled DeviceLost fault.
C6_Witness ==
    /\ handler = "default"
    /\ pc = "putback"
    /\ polled.ty = "DeviceLost"
    /\ policy = "Ignore"
    /\ renderState.tag = "Ready"

\* C7: a pass whose handler returned Recover ends in Reinitializing with a
\* FutureRenderResources in the simulation store; a pass that dispatches
\* Reinitializing ends in Initializing when its take() found the bundle and in
\* Reinitializing when it did not; a pass that dispatches Initializing runs
\* RenderStartup for the current device and ends in Ready.
C7_RecoverScenario ==
    [][PassEnds =>
         /\ policy = "Recover"
              => /\ renderState'.tag = "Reinitializing"
                 /\ mainWorld'.future # 0
                 /\ slots'[mainWorld'.future] # "taken"
         /\ (state.tag = "Reinitializing" /\ took # 0)
              => /\ renderState'.tag = "Initializing"
                 /\ renderDevice' = took
         /\ (state.tag = "Reinitializing" /\ took = 0)
              => renderState'.tag = "Reinitializing"
         /\ state.tag = "Initializing"
              => /\ renderState'.tag = "Ready"
                 /\ startupFor' = renderDevice']_vars

\* C7 witness: after a recovery the pass that dispatched Initializing has run
\* RenderStartup for the new device and set Ready.
C7_Witness ==
    /\ pc = "putback"
    /\ state.tag = "Initializing"
    /\ renderDevice > 1
    /\ startupFor = renderDevice
    /\ renderState.tag = "Ready"

\* extract has returned in this frame
ExtractReturned ==
    snapshot[1].kind # "none" /\ pc \notin {"extract_run", "extract_out", "aborted"}

\* C8: when the ExtractSchedule did not write to the MainWorld, the simulation
\* store after extract equals the simulation store before it, ScratchMainWorld
\* and the placeholder it holds included.
C8_ExtractRoundTrip ==
    (ExtractReturned /\ ~mutated)
      => /\ mainWorld = snapshot[1]
         /\ mainWorld.hasScratch
         /\ scratchRes = snapshot[2]

\* C8 witness: extract has returned without a write, on a store that holds a
\* payload, a device and a FutureRenderResources.
C8_Witness ==
    /\ ExtractReturned
    /\ ~mutated
    /\ mainWorld.data # 0
    /\ mainWorld.device # 0
    /\ mainWorld.future # 0

\* C9: the render store holds a MainWorld exactly between the insert and the
\* remove of extract; while it does, it holds the simulation store and
\* main_world refers to the empty placeholder; otherwise main_world refers to
\* the simulation store.
C9_MainWorldOnlyDuringExtract ==
    /\ (mainWorldRes.kind # "none") = (pc \in {"extract_run", "extract_out"})
    /\ mainWorldRes.kind # "none"
         => /\ mainWorldRes.kind = "sim"
            /\ mainWorld = EmptyWorld
            /\ scratchRes.kind = "none"
    /\ mainWorldRes.kind = "none" => mainWorld.kind = "sim"
    /\ pc = "render" => mainWorldRes.kind = "none"

\* C9 witness: the ExtractSchedule has run on the relocated store and queued
\* a command.
C9_Witness ==
    /\ pc = "extract_out"
    /\ mainWorldRes.kind = "sim"
    /\ mainWorldRes.device # 0
    /\ queued > 0

\* the operations of a frame, in the order the frame performs them
FrameOrder == <<"poll", "dispatch", "entity_sync", "extract", "render">>

ReadyWhenPopulated ==
    \/ mainWorld.future = 0
    \/ ~Locked(mainWorld.future) /\ slots[mainWorld.future] = "populated"

\* C12 (as claimed): the app gets past ready() only when no
\* FutureRenderResources exists or its lock is free and the slot is populated;
\* while the populating routine holds the lock ready() reports not ready.
C12_ReadyOnlyWhenPopulated ==
    [][(pc = "ready" /\ pc' = "finish") => ReadyWhenPopulated]_vars

\* C12 (amended): ready() reports ready exactly when no FutureRenderResources
\* exists, or the lock attempt fails because the lock is held, or the lock
\* attempt succeeds and finds the slot populated.
C12_ReadyOrLocked ==
    [][/\ (pc = "ready" /\ pc' = "finish")
            => (ReadyWhenPopulated \/ Locked(mainWorld.future))
       /\ (pc = "ready" /\ (ReadyWhenPopulated \/ Locked(mainWorld.future)))
            => ENABLED PluginReady
       /\ (pc = "ready" /\ ~(ReadyWhenPopulated \/ Locked(mainWorld.future)))
            => ~ENABLED PluginReady]_vars

\* C12 witness: ready() has reported ready while the populating routine holds
\* the lock of the still empty slot.
C12_Witness ==
    /\ pc = "finish"
    /\ mainWorld.future # 0
    /\ Locked(mainWorld.future)
    /\ slots[mainWorld.future] = "empty"

\* C13: an update_state pass that dispatches on Reinitializing gets past the
\* check of the FutureRenderResources slot, however long the acquisition
\* routine holds the lock of the slot.
C13_PassNeverBlocks ==
    (pc = "dispatch" /\ state.tag = "Reinitializing") ~> (pc # "dispatch")

\* C14: a pass whose handler returned StopRendering ends with the Errored
\* state it dispatched on, error included; outside update_state and in a
\* poll() that returns no fault that state stays in the store; the next pass
\* dispatches on it, and a dispatch on Errored invokes the handler with the
\* error of that state.
C14_StopRenderingRepolls ==
    [][/\ (PassEnds /\ policy = "StopRendering")
            => (state.tag = "Errored" /\ renderState' = state)
       /\ (pc \in {"entity_sync", "extract_in", "extract_run", "extract_out",
                   "render"}
             \/ (pc = "poll" /\ polled'.ty = "none"))
            => renderState' = renderState
       /\ (pc = "remove" /\ pc' = "dispatch") => state' = renderState
       /\ (pc = "dispatch" /\ state.tag = "Errored" /\ pc' # "dispatch")
            => /\ policy' \in HandlerReturns(handler)
               /\ state.err.description \in handled'
               /\ policy' = "StopRendering" => pc' = "putback"]_vars

\* C14 witness: in a later frame that polled no fault the handler has been
\* invoked again with the kept error and has returned StopRendering again.
C14_Witness ==
    /\ pc = "putback"
    /\ polled.ty = "none"
    /\ state.tag = "Errored"
    /\ state.err.description \in handled
    /\ policy = "StopRendering"
    /\ renderState.tag = "Absent"

\* C15: whenever the state is Ready, the RenderStartup schedule has run for
\* the device the render store holds, whatever faults were captured after the
\* device was acquired.
C15_StartupBeforeReady ==
    renderState.tag = "Ready" => startupFor = renderDevice

C17_FreshInstancePerAttempt ==
    [][/\ \A i \in Instances :
            /\ slots[i] = "taken" => slots'[i] = "taken"
            /\ slots[i] = "populated" => slots'[i] \in {"populated", "taken"}
            /\ (slots'[i] = "populated" /\ slots[i] # "populated")
                 => slots[i] = "empty"
            /\ (slots'[i] = "taken" /\ slots[i] # "taken")
                 => (slots[i] = "populated" /\ renderDevice' = i)
       /\ CurFuture' \notin {0, CurFuture}
            => /\ slots[CurFuture'] = "unborn"
               /\ slots'[CurFuture'] = "empty"
       /\ renderDevice' # renderDevice
            => /\ renderDevice' = CurFuture
               /\ renderDevice' = Created]_vars

\* C17 witness: a second Recover replaced the instance of the first one before
\* it was consumed; the replaced instance was populated all the same, and the
\* bundle that was unpacked is the one of the last instance.
C17_Witness ==
    /\ slots[1] = "taken"
    /\ slots[2] = "populated"
    /\ slots[3] = "taken"
    /\ renderDevice = 3

\* C18: RenderPlugin::build either leaves a FutureRenderResources (its slot
\* not necessarily populated) in the simulation-side store and installs the
\* ExtractPlugin and the render sub-app, or leaves the store as it was and
\* installs neither; a Recover whose insert_future_resources succeeds leaves
\* a FutureRenderResources in the store, one that fails leaves the store as it
\* was.
C18_InsertReportsStarted ==
    [][/\ pc = "build"
            => \/ /\ mainWorld'.future # 0
                  /\ slots'[mainWorld'.future] \in {"empty", "populated"}
                  /\ mainWorld'.hasScratch
                  /\ subApp'
               \/ /\ mainWorld' = mainWorld
                  /\ slots' = slots
                  /\ ~mainWorld'.hasScratch
                  /\ ~subApp'
       /\ (pc = "dispatch" /\ policy' = "Recover")
            => \/ /\ pc' = "putback"
                  /\ mainWorld'.future # 0
                  /\ slots'[mainWorld'.future] \in {"empty", "populated"}
               \/ /\ pc' = "aborted"
                  /\ mainWorld' = mainWorld
                  /\ slots' = slots
       /\ subApp' # subApp => pc = "build"]_vars

\* C18 witness: acquisition could not be started; the app went through
\* ready() and finish() without a FutureRenderResources, an ExtractPlugin or a
\* render sub-app.
C18_Witness ==
    /\ pc = "no_render"
    /\ mainWorld.future = 0
    /\ ~mainWorld.hasScratch
    /\ ~subApp

\* a driver callback did its store in this step
CallbackRan == cbPc = "locked" /\ cbPc' = "idle" /\ renderDevice' = renderDevice

\* the callback of this step was the device-lost one
DeviceLostRan == CallbackRan /\ cbFault.variant = "DeviceLost"

\* the callback of this step was the uncaptured-error one
UncapturedRan == CallbackRan /\ cbFault.variant \in UncapturedKinds

\* C19 (as claimed): a callback that finds its slot occupied fails an
\* assertion, for the device_lost slot and for the uncaptured slot, and the
\* pending fault is not replaced.
C19_DuplicateWriteAsserts ==
    [][/\ (DeviceLostRan /\ deviceLost.variant # "none") => cbPanicked'
       /\ (UncapturedRan /\ uncaptured.variant # "none")
            => (cbPanicked' /\ uncaptured' = uncaptured)]_vars

\* C19 (amended): a device-lost callback that finds its slot occupied stores
\* the new fault over the pending one and then fails its assertion; an
\* uncaptured-error callback that finds its slot occupied keeps the pending
\* fault, drops the new one and fails no assertion; a callback that finds its
\* slot empty stores its fault; no callback touches the other slot.
C19_DuplicateLostAssertsUncapturedDrops ==
    [][/\ DeviceLostRan
            => /\ deviceLost'.variant = "DeviceLost"
               /\ deviceLost' = cbFault
               /\ uncaptured' = uncaptured
               /\ cbPanicked' = (cbPanicked \/ deviceLost.variant # "none")
       /\ UncapturedRan
            => /\ cbPanicked' = cbPanicked
               /\ deviceLost' = deviceLost
               /\ uncaptured.variant # "none" => uncaptured' = uncaptured
               /\ uncaptured.variant = "none"
                    => uncaptured' = cbFault]_vars

\* C19 witness: two notifications were logged before the first poll(), the
\* device_lost slot is empty and the uncaptured slot holds the first one: the
\* second uncaptured error was dropped without an assertion failure.
C19_Witness ==
    /\ pc = "poll"
    /\ frameOps = << >>
    /\ logged = 2
    /\ cbPc = "idle"
    /\ deviceLost.variant = "none"
    /\ uncaptured.desc = 1
    /\ ~cbPanicked

\* the main thread is inside update_state
InUpdateState == pc \in {"poll", "remove", "dispatch", "putback"}

\* C20 (as claimed): no driver callback fails an assertion and no update_state
\* pass panics, whatever the callbacks and whatever policy the handler returns.
C20_NeverFails ==
    [][/\ ~cbPanicked'
       /\ InUpdateState => pc' # "aborted"]_vars

\* C20 (amended): a driver callback fails an assertion only when it is a
\* device-lost notification that finds an earlier one still pending, and an
\* update_state pass panics only when the handler returned Recover and
\* insert_future_resources could not start the acquisition (the store is left
\* as it was).
C20_FailsOnlyOnContractViolation ==
    [][/\ cbPanicked' # cbPanicked
            => (DeviceLostRan /\ deviceLost.variant # "none")
       /\ (pc # "aborted" /\ pc' = "aborted")
            => /\ pc = "dispatch"
               /\ state.tag = "Errored"
               /\ policy' = "Recover"
               /\ mainWorld' = mainWorld
               /\ slots' = slots]_vars

\* C20 witness: a repeated device-lost notification has failed the assertion
\* of the callback, and the pass that handled the fault has panicked in a
\* Recover whose acquisition could not be started.
C20_Witness ==
    /\ cbPanicked
    /\ pc = "aborted"
    /\ state.tag = "Errored"
    /\ state.err.ty = "DeviceLost"
    /\ policy = "Recover"

\* the driver called a callback closure in this step
CallbackCalled == cbPc = "idle" /\ cbPc' # "idle"

\* C21: the n-th call of a callback closure writes the n-th log line, before
\* anything is stored; no other step writes a log line (the store or drop of
\* the fault, poll(), update_state, the policy); a fault in a slot, a fault
\* about to be stored or dropped and the error the handler is invoked with
\* have their log line written already.
C21_LoggedOnceAtCapture ==
    [][/\ CallbackCalled
            => /\ logged' = logged + 1
               /\ cbFault'.desc = logged'
               /\ deviceLost' = deviceLost
               /\ uncaptured' = uncaptured
       /\ ~CallbackCalled => logged' = logged
       /\ CallbackRan => (cbFault.desc >= 1 /\ cbFault.desc <= logged)
       /\ deviceLost'.desc <= logged'
       /\ uncaptured'.desc <= logged'
       /\ (pc = "dispatch" /\ state.tag = "Errored" /\ policy' # "none")
            => state.err.description <= logged]_vars

\* C21 witness: the handler is about to be invoked with the first fault; the
\* second notification was logged as well and then dropped as a duplicate.
C21_Witness ==
    /\ pc = "dispatch"
    /\ state.tag = "Errored"
    /\ state.err.description = 1
    /\ handled = {}
    /\ logged = 2
    /\ cbPc = "idle"
    /\ deviceLost.variant = "none"
    /\ uncaptured.variant = "none"

\* C22: when poll() returns a fault the store holds Errored(fault), whatever
\* it held before, and the pass dispatches on that state; a pass invokes the
\* handler in its dispatch step exactly when the dispatched state is Errored,
\* with the error of that state, which is the polled fault if one was polled;
\* no other step invokes the handler.
C22_FaultForcesErrored ==
    [][/\ (PollReturns /\ polled'.ty # "none")
            => renderState' = StErrored(polled')
       /\ (pc = "remove" /\ pc' = "dispatch" /\ polled.ty # "none")
            => state' = StErrored(polled)
       /\ (pc = "dispatch" /\ pc' # "dispatch")
            => /\ policy = "none"
               /\ (policy' # "none") = (state.tag = "Errored")
               /\ policy' # "none" => state.err.description \in handled'
               /\ polled.ty # "none" => (policy' # "none" /\ state.err = polled)
       /\ pc # "dispatch" => (policy' = policy \/ policy' = "none")
       /\ pc # "dispatch" => handled' = handled]_vars

\* C22 witness: a fault was polled while a recovery was under way (the store
\* held Reinitializing, or an Errored kept by StopRendering after it); the
\* state was overwritten and the handler, invoked with that fault, ignored it.
C22_Witness ==
    /\ pc = "putback"
    /\ polled.ty # "none"
    /\ state = StErrored(polled)
    /\ policy = "Ignore"
    /\ renderState.tag = "Ready"
    /\ mainWorld.future # 0

\* poll() returned the fault f of a slot in this step and left the slot empty
PollReturned(f, after) ==
    PollReturns /\ polled' = ToRenderError(f) /\ after = NoFault

\* who holds a slot lock is inside its critical section on that slot: poll()
\* holds at most the lock of the slot it looks at, the running callback at
\* most the lock of the slot it captured
LockHolders ==
    \A n \in SlotNames :
        /\ slotLock[n] = "poll" => (pc = "poll" /\ PollOrder[pollIdx] = n)
        /\ slotLock[n] = "callback" => (cbPc = "locked" /\ SlotOf(cbFault) = n)

\* poll() and the running callback each wait for a lock the other one holds
LockCycle ==
    /\ pc = "poll"
    /\ slotLock[PollOrder[pollIdx]] = "callback"
    /\ cbPc = "logged"
    /\ slotLock[SlotOf(cbFault)] = "poll"

C24_PlaceholderInRenderStore ==
    ExtractReturned => renderScratch.kind = "scratch"

\* C24 (amended): when extract has returned, the simulation store holds the
\* placeholder in its ScratchMainWorld and the render store holds none; until
\* the next extract nothing moves it, so the first step of every extract
\* finds it there and goes on to run the ExtractSchedule.
C24_PlaceholderInSimulationStore ==
    [][/\ renderScratch' = NoWorld
       /\ ExtractReturned'
            => /\ mainWorld'.hasScratch
               /\ scratchRes'.kind = "scratch"
       /\ pc \notin {"build", "extract_in", "extract_out"}
            => /\ scratchRes' = scratchRes
               /\ mainWorld'.hasScratch = mainWorld.hasScratch
       /\ (pc = "extract_in" /\ pc' # pc)
            => /\ mainWorld.hasScratch
               /\ scratchRes.kind = "scratch"
               /\ pc' = "extract_run"
               /\ mainWorld' = scratchRes]_vars

\* C24 witness: a later frame (RenderStartup ran in one pass, the handler in
\* another) has removed the placeholder the extract before it put back.
C24_Witness ==
    /\ pc = "extract_run"
    /\ startupFor # 0
    /\ handled # {}
    /\ snapshot[2].kind = "scratch"
    /\ mainWorld = snapshot[2]

\* C25: while the state of the pass is Reinitializing the simulation store
\* holds a FutureRenderResources, so the lookup of the Reinitializing arm
\* finds it.
C25_ReinitializingHasFuture ==
    /\ EffState.tag = "Reinitializing" => CurFuture # 0
    /\ (pc = "dispatch" /\ state.tag = "Reinitializing") => mainWorld.future # 0

\* C25 witness: after two faults and two Recover decisions the Reinitializing
\* arm is about to look up the third instance; the second one was replaced
\* before it was consumed.
C25_Witness ==
    /\ pc = "dispatch"
    /\ state.tag = "Reinitializing"
    /\ mainWorld.future = 3
    /\ slots[2] # "taken"

\* C26: a dispatch step in which the handler returns Recover and no new
\* FutureRenderResources gets installed ends update_state in a panic, with no
\* RenderState in the render store and the simulation store as it was; nothing
\* is reinserted afterwards.
C26_FailedRecoverLeavesNoState ==
    [][/\ (pc = "dispatch" /\ policy' = "Recover"
             /\ mainWorld'.future = mainWorld.future)
            => /\ pc' = "aborted"
               /\ renderState = StAbsent
               /\ renderState' = StAbsent
               /\ mainWorld' = mainWorld
               /\ slots' = slots
       /\ pc = "aborted"
            => /\ pc' = "aborted"
               /\ renderState' = renderState
               /\ mainWorld' = mainWorld]_vars

\* C26 witness: update_state has panicked in a failed Recover.
C26_Witness ==
    /\ pc = "aborted"
    /\ policy = "Recover"
    /\ state.tag = "Errored"
    /\ renderState = StAbsent
    /\ mainWorld.future = 0

====
